---- MODULE Spec2Model ----
(***************************************************************************)
(* HSTransform.fit_transform (src/hstransform.py): one call of the         *)
(* S-transform with a hyperbolic Gaussian window, followed statement by    *)
(* statement.  The numeric primitives (fft, ifft, the window sum) are kept *)
(* symbolic: a row of the output is recorded by the frequency index, the   *)
(* spectrum slice and the window weight it was computed from.              *)
(***************************************************************************)
EXTENDS Integers, Naturals, Sequences, FiniteSets, TLC

VARIABLES
    pc,             \* position inside fit_transform
    args,           \* the caller's arguments (time_values, input_signal, minf, fsamplingrate)
    time_values,    \* local: the converted time axis (line 113)
    input_signal,   \* local: the converted signal (line 115)
    N,              \* local N (line 117)
    maxf,           \* local maxf (line 119)
    H,              \* local H: length and origin of the spectrum (lines 122-123)
    S,              \* local S: the output matrix, row -> content (line 126)
    k,              \* loop variable of line 132
    err,            \* the exception the call ended with, "none" otherwise
    window_calls,   \* history: arguments of every _compute_hyperbolic_gaussian call
    slices,         \* history: every slice of H taken at line 134
    row_writes      \* history: number of loop assignments per row index

vars == <<pc, args, time_values, input_signal, N, maxf, H, S, k, err,
          window_calls, slices, row_writes>>

-----------------------------------------------------------------------------
(* Bounds of the explored inputs *)

MaxShort == 2       \* signals of every element kind up to this length
MaxN == 16          \* integer ramps 1..n up to this length
BigN == 1802        \* one long ramp, so that the cap of line 119 bites
MaxMinf == 3        \* minf in 0..MaxMinf (and as far below the cap for BigN), and -1
MaxFs == 4          \* fsamplingrate in 1..MaxFs

(* Program constants *)

FreqCap == 900

-----------------------------------------------------------------------------
(* Values *)

NONE == [kind |-> "unset"]

IntElem(v) == [kind |-> "int", val |-> v]
NaNElem == [kind |-> "nan", val |-> 0]
StrElem == [kind |-> "str", val |-> 0]
BoolElem == [kind |-> "bool", val |-> 1]

Elems == {IntElem(2), NaNElem, StrElem, BoolElem}

Ramp(n) == [i \in 1..n |-> IntElem(i)]

RECURSIVE SeqsUpTo(_)
SeqsUpTo(n) ==
    IF n = 0 THEN {<<>>}
    ELSE LET prev == SeqsUpTo(n - 1)
         IN  prev \cup {Append(s, e) : s \in {p \in prev : Len(p) = n - 1}, e \in Elems}

Min(a, b) == IF a < b THEN a ELSE b
Max(a, b) == IF a > b THEN a ELSE b

\* Python's // on integers with a positive divisor: floor division.
FloorDiv(a, b) == IF a >= 0 THEN a \div b ELSE -((-a + b - 1) \div b)

CeilDiv(a, b) == -FloorDiv(-a, b)

\* The bitwise and of two naturals (numpy's & on integers).
RECURSIVE BitAnd(_, _)
BitAnd(a, b) ==
    IF a = 0 \/ b = 0 THEN 0
    ELSE (a % 2) * (b % 2) + 2 * BitAnd(a \div 2, b \div 2)

\* The sum of the elements lo..hi of a signal, halving the range.
RECURSIVE SumVals(_, _, _)
SumVals(s, lo, hi) ==
    IF lo > hi THEN 0
    ELSE IF lo = hi THEN s[lo].val
    ELSE LET mid == (lo + hi) \div 2
         IN  SumVals(s, lo, mid) + SumVals(s, mid + 1, hi)

-----------------------------------------------------------------------------
(* numpy as far as fit_transform depends on it *)

\* np.array(x).dtype: strings absorb everything, then floats (NaN is a float),
\* then integers; a sequence of booleans only stays boolean.
np_array_dtype(elems) ==
    IF \E i \in 1..Len(elems) : elems[i].kind = "str" THEN "str"
    ELSE IF \E i \in 1..Len(elems) : elems[i].kind \in {"float", "nan"} THEN "float64"
    ELSE IF \E i \in 1..Len(elems) : elems[i].kind = "int" THEN "int64"
    ELSE IF Len(elems) = 0 THEN "float64"
    ELSE "bool"

\* np.isnan(a).any(): the ufunc is not defined on string arrays and raises
\* TypeError there; otherwise it tells whether some element is NaN.
np_isnan_any(elems) ==
    IF np_array_dtype(elems) = "str" THEN "TypeError"
    ELSE IF \E i \in 1..Len(elems) : elems[i].kind = "nan" THEN "true"
    ELSE "false"

\* np.issubdtype(dtype, np.number)
np_issubdtype_number(dtype) == dtype \in {"int64", "float64"}

\* len(H[lo:hi]) for 0 <= lo: Python clips a slice to the sequence.
SliceLen(len, lo, hi) == Max(0, Min(hi, len) - Min(lo, len))

-----------------------------------------------------------------------------
(* HSTransform *)

valid_types == {"ndarray", "Series", "list"}

\* A validation that lets NaN through (the check of lines 49-50 dropped).
input_validation_no_nan_check(signal) ==
    IF signal.type \notin valid_types THEN "TypeError"
    ELSE IF np_isnan_any(signal.elems) = "TypeError" THEN "TypeError"
    ELSE IF ~np_issubdtype_number(np_array_dtype(signal.elems)) THEN "ValueError"
    ELSE "none"

\* _input_validation: the exception it raises, "none" when it returns.
input_validation(signal) ==
    IF signal.type \notin valid_types THEN "TypeError"
    ELSE LET nan == np_isnan_any(signal.elems)
         IN  IF nan = "TypeError" THEN "TypeError"
             ELSE IF nan = "true" THEN "ValueError"
             ELSE IF ~np_issubdtype_number(np_array_dtype(signal.elems)) THEN "ValueError"
             ELSE "none"

\* _compute_hyperbolic_gaussian(L, n, time): the sum of the window, kept
\* symbolic; with n = 0 the exponent divides by zero and the sum is NaN.
compute_hyperbolic_gaussian(L, n, time) ==
    [L |-> L, n |-> n, degenerate |-> (n = 0)]

\* maxf = min(900, N // 2)
MaxFreq(n) == Min(FreqCap, n \div 2)

\* The row count handed to np.zeros at line 126.
OutputRows(n, minf, fs) == FloorDiv(MaxFreq(n) - minf + 1, fs)

\* np.zeros((rows, N), dtype='complex')
ZeroRow == [kind |-> "zeros"]
np_zeros(rows, cols) == [rows |-> rows, cols |-> cols, row |-> [r \in 0..(rows - 1) |-> ZeroRow]]

\* A DC row whose mask is all ones (the mean in every column).
DCRow_all_ones(signal) ==
    LET n == Len(signal.elems)
        total == SumVals(signal.elems, 1, n)
    IN  [kind |-> "dc", vals |-> [j \in 1..n |-> [num |-> total, den |-> n]]]

\* np.mean(input_signal) * (1 & np.arange(1, N + 1)): column j holds the
\* mean, kept as the fraction num/den, times the mask 1 & j.
DCRow(signal) ==
    LET n == Len(signal.elems)
        total == SumVals(signal.elems, 1, n)
    IN  [kind |-> "dc",
         vals |-> [j \in 1..n |-> [num |-> total * BitAnd(1, j), den |-> n]]]

\* A row index counted from zero (row 0 taken by the first iteration).
RowIndex_from_zero(kk, fs) == FloorDiv(kk, fs) - 1

\* The index of the row assigned at line 134.
RowIndex(kk, fs) == FloorDiv(kk, fs)

\* A loop that starts at step 0: range(0, maxf - minf + 1, fsamplingrate).
FirstStep_zero(fs) == 0

\* The first step of range(fsamplingrate, maxf - minf + 1, fsamplingrate).
FirstStep(fs) == fs

\* The bounds of the slice H[minf + k + 1 : minf + k + N + 1].
SliceOf(minf, kk, n) == [lo |-> minf + kk + 1, hi |-> minf + kk + n + 1]

\* ifft(H[lo:hi] * W_hy): the row computed at line 134.
LoopRow(n, minf, kk, time) ==
    [kind |-> "ifft", n |-> minf + kk, slice |-> SliceOf(minf, kk, n),
     W |-> compute_hyperbolic_gaussian(n, minf + kk, time)]

-----------------------------------------------------------------------------
(* Inputs *)

Signals == (SeqsUpTo(MaxShort) \ {<<>>}) \cup {Ramp(n) : n \in 1..MaxN} \cup {Ramp(BigN)}

Containers == {"list", "ndarray", "Series", "dict"}

TimeKinds == {"numeric", "strings"}

MinfChoices(n) ==
    IF n > MaxN THEN {MaxFreq(n) - d : d \in 0..MaxMinf} \cup {MaxFreq(n) + 1}
    ELSE (0..MaxMinf) \cup {-1}

Init ==
    /\ pc = "validate"
    /\ \E elems \in Signals, c \in Containers, tk \in TimeKinds, fs \in 1..MaxFs :
         \E minf \in MinfChoices(Len(elems)) :
            args = [time_values |-> [type |-> "list", kind |-> tk, len |-> Len(elems)],
                    input_signal |-> [type |-> c, elems |-> elems],
                    minf |-> minf,
                    fsamplingrate |-> fs]
    /\ time_values = NONE
    /\ input_signal = NONE
    /\ N = -1
    /\ maxf = -1
    /\ H = NONE
    /\ S = NONE
    /\ k = -1
    /\ err = "none"
    /\ window_calls = {}
    /\ slices = {}
    /\ row_writes = << >>

Raise(e) ==
    /\ pc' = "raised"
    /\ err' = e

\* line 109: self._input_validation(input_signal)
Validate ==
    /\ pc = "validate"
    /\ LET e == input_validation(args.input_signal)
       IN  IF e # "none" THEN Raise(e)
           ELSE pc' = "convert" /\ err' = err
    /\ UNCHANGED <<args, time_values, input_signal, N, maxf, H, S, k,
                   window_calls, slices, row_writes>>

\* lines 112-115: local conversion to arrays; the caller's objects stay as they are
Convert ==
    /\ pc = "convert"
    /\ time_values' = [args.time_values EXCEPT !.type = "ndarray"]
    /\ input_signal' = [args.input_signal EXCEPT !.type = "ndarray"]
    /\ pc' = "lengths"
    /\ UNCHANGED <<args, N, maxf, H, S, k, err, window_calls, slices, row_writes>>

\* lines 117-119: N = len(input_signal); maxf = min(900, N // 2)
Lengths ==
    /\ pc = "lengths"
    /\ N' = Len(input_signal.elems)
    /\ maxf' = MaxFreq(Len(input_signal.elems))
    /\ pc' = "fft"
    /\ UNCHANGED <<args, time_values, input_signal, H, S, k, err,
                   window_calls, slices, row_writes>>

\* A spectrum that is not duplicated.
ConcatLen_single(n) == n

\* the length of np.concatenate((H, H))
ConcatLen(n) == 2 * n

\* lines 122-123: H = fft(input_signal); H = np.concatenate((H, H))
ForwardFFT ==
    /\ pc = "fft"
    /\ H' = [kind |-> "fft", len |-> ConcatLen(N)]
    /\ pc' = "alloc"
    /\ UNCHANGED <<args, time_values, input_signal, N, maxf, S, k, err,
                   window_calls, slices, row_writes>>

\* line 126: S = np.zeros(((maxf - minf + 1) // fsamplingrate, N)); a
\* negative dimension raises ValueError
Allocate ==
    /\ pc = "alloc"
    /\ LET rows == OutputRows(N, args.minf, args.fsamplingrate)
       IN  IF rows < 0
           THEN Raise("ValueError") /\ UNCHANGED <<S, row_writes>>
           ELSE /\ S' = np_zeros(rows, N)
                /\ row_writes' = [r \in 0..(rows - 1) |-> 0]
                /\ pc' = "row0"
                /\ err' = err
    /\ UNCHANGED <<args, time_values, input_signal, N, maxf, H, k,
                   window_calls, slices>>

\* line 127: S[0, :] = mean * mask; IndexError when S has no row.
\* line 129 (k_values) is never read and changes nothing.
DCAssign ==
    /\ pc = "row0"
    /\ IF S.rows = 0
       THEN Raise("IndexError") /\ UNCHANGED <<S, k>>
       ELSE /\ S' = [S EXCEPT !.row[0] = DCRow(input_signal)]
            /\ k' = FirstStep(args.fsamplingrate)
            /\ pc' = "loop"
            /\ err' = err
    /\ UNCHANGED <<args, time_values, input_signal, N, maxf, H,
                   window_calls, slices, row_writes>>

\* lines 132-134: one iteration of the loop over
\* range(fsamplingrate, maxf - minf + 1, fsamplingrate)
LoopStep ==
    /\ pc = "loop"
    /\ k < maxf - args.minf + 1
    /\ LET n == args.minf + k
           sl == SliceOf(args.minf, k, N)
           got == SliceLen(H.len, sl.lo, sl.hi)
           r == RowIndex(k, args.fsamplingrate)
       IN  /\ window_calls' = window_calls \cup {[L |-> N, n |-> n]}
           /\ IF time_values.kind # "numeric"
              THEN \* line 78: arithmetic on a string array
                   Raise("TypeError") /\ UNCHANGED <<S, k, slices, row_writes>>
              ELSE /\ slices' = slices \cup {[lo |-> sl.lo, hi |-> sl.hi, len |-> got]}
                   /\ IF got = 0
                      THEN \* ifft of an empty array
                           Raise("ValueError") /\ UNCHANGED <<S, k, row_writes>>
                      ELSE IF r < 0 \/ r >= S.rows
                      THEN Raise("IndexError") /\ UNCHANGED <<S, k, row_writes>>
                      ELSE IF got \notin {1, N}
                      THEN \* a shorter row does not broadcast into N columns
                           Raise("ValueError") /\ UNCHANGED <<S, k, row_writes>>
                      ELSE /\ S' = [S EXCEPT !.row[r] = LoopRow(N, args.minf, k, time_values)]
                           /\ row_writes' = [row_writes EXCEPT ![r] = @ + 1]
                           /\ k' = k + args.fsamplingrate
                           /\ pc' = pc
                           /\ err' = err
    /\ UNCHANGED <<args, time_values, input_signal, N, maxf, H>>

\* line 136: return S, once the range is exhausted
Return ==
    /\ pc = "loop"
    /\ k >= maxf - args.minf + 1
    /\ pc' = "done"
    /\ UNCHANGED <<args, time_values, input_signal, N, maxf, H, S, k, err,
                   window_calls, slices, row_writes>>

Next ==
    \/ Validate
    \/ Convert
    \/ Lengths
    \/ ForwardFFT
    \/ Allocate
    \/ DCAssign
    \/ LoopStep
    \/ Return

Spec == Init /\ [][Next]_vars

-----------------------------------------------------------------------------
(* Properties *)

Ended == pc \in {"done", "raised"}

SignalLen == Len(args.input_signal.elems)

SignalSum == SumVals(args.input_signal.elems, 1, SignalLen)

AcceptedType == args.input_signal.type \in {"list", "ndarray", "Series"}

\* an accepted sequence of integers and floats, with a numeric time axis
NumericCall ==
    /\ AcceptedType
    /\ \A i \in 1..SignalLen : args.input_signal.elems[i].kind \in {"int", "float"}
    /\ args.time_values.kind = "numeric"

\* the number of frequency indices minf..maxf
Span == Min(900, SignalLen \div 2) - args.minf + 1

RowWritten(r) == S.row[r] # ZeroRow

SomeRowWritten == S # NONE /\ \E r \in DOMAIN S.row : RowWritten(r)

\* C1: every call with a valid numeric signal and 0 <= minf <= maxf returns
\* (does not raise) a matrix of Span // fsamplingrate rows and N columns.
C1_ReturnsFloorShape ==
    (Ended /\ NumericCall /\ args.minf >= 0 /\ Span >= 1)
        => /\ pc = "done"
           /\ S.rows = FloorDiv(Span, args.fsamplingrate)
           /\ S.cols = SignalLen

\* C2: every call with a valid numeric signal and 0 <= minf <= maxf returns a
\* matrix of ceil(Span / fsamplingrate) rows and N columns: row 0 and one row
\* for each analysed step.
C2_ReturnsCeilShape ==
    (Ended /\ NumericCall /\ args.minf >= 0 /\ Span >= 1)
        => /\ pc = "done"
           /\ S.rows = CeilDiv(Span, args.fsamplingrate)
           /\ S.rows = 1 + Cardinality({kk \in 1..(Span - 1) : kk % args.fsamplingrate = 0})
           /\ S.cols = SignalLen

\* C3: a call whose signal is an accepted sequence of non-numeric elements
\* ends with ValueError and with no other error.
C3_NonNumericIsValueError ==
    (/\ Ended
     /\ AcceptedType
     /\ \A i \in 1..SignalLen : args.input_signal.elems[i].kind \in {"str", "bool"})
        => (pc = "raised" /\ err = "ValueError")

\* C4: a call (numeric time axis, minf >= 0) that ends with an error has
\* written no row of the output matrix, neither row 0 nor a loop row.
C4_AllOrNothing ==
    (pc = "raised" /\ args.time_values.kind = "numeric" /\ args.minf >= 0)
        => ~SomeRowWritten

\* C5: for every stride, the call (valid signal, 0 <= minf <= maxf) completes
\* without error; with an even stride 2s its row count is half the row count
\* of the stride-s run up to rounding; and each row j >= 1 is computed from
\* the frequency index minf + j*s, as row j*s of the stride-1 run is.
C5_StrideRows ==
    (Ended /\ NumericCall /\ args.minf >= 0 /\ Span >= 1)
        => /\ pc = "done"
           /\ args.fsamplingrate % 2 = 0 =>
                LET half == OutputRows(SignalLen, args.minf, args.fsamplingrate \div 2)
                IN  S.rows \in {half \div 2, (half + 1) \div 2}
           /\ \A j \in 1..(S.rows - 1) :
                /\ S.row[j].n = args.minf + j * args.fsamplingrate
                /\ S.row[j] = LoopRow(SignalLen, args.minf, j * args.fsamplingrate,
                                      time_values)

\* C6: once row 0 is assigned, and in the matrix returned, column j of row 0
\* holds mean(input_signal) when 1 & j = 1 (j odd) and 0 when 1 & j = 0
\* (j even), and no loop iteration has written row 0.
C6_DCRowMask ==
    (pc \in {"loop", "done"} /\ NumericCall)
        => LET mean == [num |-> SignalSum, den |-> SignalLen]
               zero == [num |-> 0, den |-> SignalLen]
           IN  /\ S.row[0].kind = "dc"
               /\ row_writes[0] = 0
               /\ DOMAIN S.row[0].vals = 1..S.cols
               /\ \A j \in 1..S.cols :
                    /\ j % 2 = BitAnd(1, j)
                    /\ j % 2 = 1 => S.row[0].vals[j] = mean
                    /\ j % 2 = 0 => S.row[0].vals[j] = zero

\* a returned matrix whose row 0 has the (non-zero) mean in column 1 and 0
\* in column 2: the mask is not all ones
C6_Witness ==
    /\ pc = "done"
    /\ NumericCall
    /\ SignalLen >= 3
    /\ SignalSum # 0
    /\ S.rows >= 2
    /\ S.row[0].vals[1].num = SignalSum
    /\ S.row[0].vals[2].num = 0

\* an accepted sequence of numbers of which at least one is NaN
NumericWithNaN ==
    /\ AcceptedType
    /\ \A i \in 1..SignalLen : args.input_signal.elems[i].kind \in {"int", "float", "nan"}
    /\ \E i \in 1..SignalLen : args.input_signal.elems[i].kind = "nan"

NothingComputed ==
    /\ H = NONE
    /\ S = NONE
    /\ window_calls = {}
    /\ \A i \in DOMAIN row_writes : row_writes[i] = 0

C7_ValidationState ==
    /\ (Ended /\ ~AcceptedType) => (pc = "raised" /\ err = "TypeError" /\ NothingComputed)
    /\ (Ended /\ NumericWithNaN) => (pc = "raised" /\ err = "ValueError" /\ NothingComputed)
    /\ (pc # "validate" /\ (~AcceptedType \/ NumericWithNaN)) => pc = "raised"
    /\ ~NothingComputed => (AcceptedType /\ ~NumericWithNaN)

\* C7: a signal of a type that is not accepted ends the call with TypeError,
\* an accepted numeric signal with a NaN ends it with ValueError, in both
\* cases in the step that follows the call, before the FFT, the allocation
\* and any row; nothing is computed for a signal that fails validation, and
\* the caller's time_values and input_signal never change.
C7_ValidationFirst == [](C7_ValidationState) /\ [][args' = args]_vars

\* a call that ended in validation with ValueError for a signal with a NaN
C7_Witness ==
    /\ pc = "raised"
    /\ err = "ValueError"
    /\ NumericWithNaN
    /\ SignalLen >= 2
    /\ NothingComputed

\* C8: (minf >= 0) no row is assigned twice by the loop and row 0 never; in
\* a call that returned, each of the rows 1..R-1 was assigned exactly once
\* and holds an inverse transform.
C8_RowsWrittenOnce ==
    (S # NONE /\ args.minf >= 0)
        => /\ \A r \in DOMAIN row_writes : row_writes[r] <= 1
           /\ 0 \in DOMAIN row_writes => row_writes[0] = 0
           /\ \A r \in DOMAIN S.row :
                (r >= 1 /\ RowWritten(r)) => (row_writes[r] = 1 /\ S.row[r].kind = "ifft")
           /\ pc = "done" =>
                \A r \in 1..(S.rows - 1) : row_writes[r] = 1 /\ S.row[r].kind = "ifft"

\* a returned matrix of at least three rows computed with a stride above 1
C8_Witness ==
    /\ pc = "done"
    /\ args.minf >= 0
    /\ args.fsamplingrate >= 2
    /\ S.rows >= 3
    /\ \A r \in 1..(S.rows - 1) : row_writes[r] = 1

\* C9: every slice H[minf+k+1 : minf+k+1+N] taken by the loop ends inside
\* the spectrum of length 2N and has exactly N elements.
C9_SliceInside ==
    \A sl \in slices :
        /\ args.minf >= 0 =>
             /\ args.minf <= Min(900, SignalLen \div 2)
             /\ sl.hi <= 2 * SignalLen
             /\ sl.hi <= H.len
        /\ sl.hi - sl.lo = SignalLen
        /\ sl.len = SignalLen

\* a slice that ends exactly at the end of the duplicated spectrum
C9_Witness ==
    /\ args.minf >= 0
    /\ \E sl \in slices : sl.hi = 2 * SignalLen /\ sl.len = SignalLen

\* C10: with minf >= 0 every call of the window-weight calculator gets a
\* frequency index n with 1 <= n <= min(900, N // 2); n = 0 is passed only
\* when minf is negative.
C10_WindowIndexPositive ==
    \A c \in window_calls :
        /\ c.L = SignalLen
        /\ args.minf >= 0 => (1 <= c.n /\ c.n <= Min(900, SignalLen \div 2))
        /\ c.n <= 0 => args.minf < 0

\* the calculator called with the capped index n = 900 for a signal longer than 1800
C10_Witness ==
    /\ args.minf >= 0
    /\ \E c \in window_calls : c.n = 900
    /\ SignalLen > 1800

\* the degenerate index n = 0 reached with minf = -1
C10_DegenerateWithNegativeMinf ==
    /\ args.minf < 0
    /\ \E c \in window_calls : c.n = 0

====
